---- MODULE Spec2Model ----
(***************************************************************************)
(* Model of the "Remove Unused Block IDs" plugin (src/main.ts).            *)
(*                                                                         *)
(* Text is modelled as sequences of one-character strings; a document's    *)
(* content is one flat sequence that contains "\n" characters, and the     *)
(* code's split('\n') / join('\n') are the operators SplitLines and        *)
(* JoinLines.  The vault maps each file to its content, or to Missing      *)
(* when the file has been removed.                                         *)
(***************************************************************************)
EXTENDS Integers, Sequences, FiniteSets, TLC

(***************************************************************************)
(* Bounds of the model.                                                    *)
(***************************************************************************)
\* total number of lines written in the corpus of the scan-only specification
MaxScanLines == 3
\* total number of lines written in the corpus of the scan/confirm/delete lifecycle
MaxLines == 2
\* number of external edits between scan and the end of the delete run
MaxDrift == 1
\* length of the free-form content of the character-level specification
MaxContentLen == 4

(***************************************************************************)
(* Characters.                                                             *)
(***************************************************************************)
NL == "\n"
\* \s of a JavaScript regular expression (the members the model writes)
SpaceChars == {" ", "\t", "\r", NL}
\* \w of a JavaScript regular expression (the members the model writes)
WordChars == {"a", "b", "t", "A", "B", "_"}
\* [\w-]
TokenChars == WordChars \cup {"-"}

IsSpace(c) == c \in SpaceChars
IsToken(c) == c \in TokenChars

\* values that are no text (no character is longer than one letter)
NoMatch == <<"null">>
NoPath == <<"undefined">>
Missing == <<"missing">>
\* getFirstLinkpathDest found no file
NoDest == "null"

Files == {"A", "B"}
\* getMarkdownFiles(): the enumeration order of the vault's documents
MarkdownFiles == <<"A", "B">>
\* file.path of a document
FilePath(f) == <<f>>

(***************************************************************************)
(* String helpers: content.split('\n'), lines.join('\n'), line.trim().     *)
(***************************************************************************)
RECURSIVE SplitFrom(_, _, _)
\* the lines of content[from..], cur being the line read so far
SplitFrom(content, from, cur) ==
    IF from > Len(content) THEN <<cur>>
    ELSE IF content[from] = NL
         THEN <<cur>> \o SplitFrom(content, from + 1, <<>>)
         ELSE SplitFrom(content, from + 1, Append(cur, content[from]))

SplitLines(content) == SplitFrom(content, 1, <<>>)

RECURSIVE JoinLines(_)
JoinLines(lines) ==
    IF Len(lines) = 0 THEN <<>>
    ELSE IF Len(lines) = 1 THEN lines[1]
    ELSE lines[1] \o <<NL>> \o JoinLines(Tail(lines))

RECURSIVE TrimStart(_)
TrimStart(s) == IF s # <<>> /\ IsSpace(s[1]) THEN TrimStart(Tail(s)) ELSE s

RECURSIVE TrimEnd(_)
TrimEnd(s) ==
    IF s # <<>> /\ IsSpace(s[Len(s)]) THEN TrimEnd(SubSeq(s, 1, Len(s) - 1)) ELSE s

Trim(s) == TrimEnd(TrimStart(s))

AllToken(s, from, to) == \A k \in from..to : IsToken(s[k])

(***************************************************************************)
(* blockIdRegex = /(?:\s|^)\^([\w-]+)$/ : line.match(blockIdRegex).        *)
(* A match has its caret at position c: the caret is the first character   *)
(* of the line or follows a whitespace character, and one or more token    *)
(* characters run from c+1 to the end of the line.  BlockIdMatch is the    *)
(* capture group match[1], or NoMatch.                                     *)
(***************************************************************************)
\* a collector pattern without the (?:\s|^) group
BlockIdCaretAnywhere(line, c) ==
    /\ line[c] = "^"
    /\ c < Len(line)
    /\ AllToken(line, c + 1, Len(line))

BlockIdCaretAt(line, c) ==
    /\ line[c] = "^"
    /\ (c = 1 \/ IsSpace(line[c - 1]))
    /\ c < Len(line)
    /\ AllToken(line, c + 1, Len(line))

BlockIdMatch(line) ==
    IF \E c \in 1..Len(line) : BlockIdCaretAt(line, c)
    THEN LET c == CHOOSE c \in 1..Len(line) : BlockIdCaretAt(line, c)
         IN  SubSeq(line, c + 1, Len(line))
    ELSE NoMatch

\* isValidBlockId: /^[\w-]+$/.test(id)
isValidBlockId(id) == id # <<>> /\ AllToken(id, 1, Len(id))

(***************************************************************************)
(* blockIdRefRegex = /\[\[(.*?)#\^([\w-]+)\s*(\|.*?)?\]\]/g, run by        *)
(* repeated exec over one line.                                            *)
(***************************************************************************)
At(line, p, ch) == p >= 1 /\ p <= Len(line) /\ line[p] = ch

RECURSIVE RunEnd(_, _, _)
\* first position >= p whose character is not in the class (greedy run)
RunEnd(line, p, class) ==
    IF p <= Len(line) /\ line[p] \in class THEN RunEnd(line, p + 1, class) ELSE p

ClosesAt(line, q) == At(line, q, "]") /\ At(line, q + 1, "]")

\* \s*(\|.*?)?\]\] read from position p: the position after the match, or 0
RefTailEnd(line, p) ==
    LET q == RunEnd(line, p, SpaceChars)
    IN  IF At(line, q, "|") /\ \E r \in (q + 1)..Len(line) : ClosesAt(line, r)
        THEN (CHOOSE r \in (q + 1)..Len(line) :
                 /\ ClosesAt(line, r)
                 /\ \A r2 \in (q + 1)..(r - 1) : ~ClosesAt(line, r2)) + 2
        ELSE IF ClosesAt(line, q) THEN q + 2
        ELSE 0

\* #\^([\w-]+)\s*(\|.*?)?\]\] read with the "#" at position e
RefHashAt(line, e) ==
    /\ At(line, e, "#")
    /\ At(line, e + 1, "^")
    /\ RunEnd(line, e + 2, TokenChars) > e + 2
    /\ RefTailEnd(line, RunEnd(line, e + 2, TokenChars)) # 0

\* a match of the whole expression starting at position s
RefStartsAt(line, s) ==
    /\ At(line, s, "[")
    /\ At(line, s + 1, "[")
    /\ \E e \in (s + 2)..Len(line) : RefHashAt(line, e)

RECURSIVE RefMatches(_, _)
\* the matches exec returns from lastIndex = from - 1 on, each as
\* [target |-> refMatch[1], id |-> refMatch[2]]
RefMatches(line, from) ==
    IF \E s \in from..Len(line) : RefStartsAt(line, s)
    THEN LET s == CHOOSE s \in from..Len(line) :
                    /\ RefStartsAt(line, s)
                    /\ \A s2 \in from..(s - 1) : ~RefStartsAt(line, s2)
             \* (.*?) is lazy: the first "#" from which the rest matches
             e == CHOOSE e \in (s + 2)..Len(line) :
                    /\ RefHashAt(line, e)
                    /\ \A e2 \in (s + 2)..(e - 1) : ~RefHashAt(line, e2)
             t == RunEnd(line, e + 2, TokenChars)
         IN  <<[target |-> SubSeq(line, s + 2, e - 1),
                id |-> SubSeq(line, e + 2, t - 1)]>>
             \o RefMatches(line, RefTailEnd(line, t))
    ELSE <<>>

(***************************************************************************)
(* State.                                                                  *)
(***************************************************************************)
VARIABLES
    vault,              \* file -> content, or Missing
    resolve,            \* metadataCache.getFirstLinkpathDest: <<linkpath, source>> -> file or NoDest
    pc,                 \* "idle", "scanning", "modal", "deleting", "done", "failed"
    idx,                \* number of files the scan has collected
    blockIds,           \* the Map of findUnusedBlockIds, in insertion order
    blockIdReferences,  \* the Set of findUnusedBlockIds
    unusedBlockIds,     \* the scan result handed to the ConfirmationModal
    blockIdsByFile,     \* the groups of deleteUnusedBlockIds, in insertion order
    gi,                 \* index of the group whose vault.process is pending
    totalRemoved,       \* the counter of deleteUnusedBlockIds
    notice,             \* the last Notice shown, as a record
    writes,             \* files the delete run has written, in order
    drifts              \* number of external edits so far

vars == <<vault, resolve, pc, idx, blockIds, blockIdReferences, unusedBlockIds,
          blockIdsByFile, gi, totalRemoved, notice, writes, drifts>>

\* the link paths written in the documents of the model
LinkPaths == {<<"A">>}

\* a resolution that falls back to the written link path
ResolvedPathOrWritten(linkpath, source) ==
    IF linkpath \in LinkPaths /\ resolve[<<linkpath, source>>] # NoDest
    THEN FilePath(resolve[<<linkpath, source>>])
    ELSE linkpath

\* getFirstLinkpathDest(linkpath, sourcePath)?.path
ResolvedPath(linkpath, source) ==
    IF linkpath \in LinkPaths /\ resolve[<<linkpath, source>>] # NoDest
    THEN FilePath(resolve[<<linkpath, source>>])
    ELSE NoPath

(***************************************************************************)
(* collectBlockIdsAndReferences.                                           *)
(***************************************************************************)
\* a key made of the identifier text alone
BlockIdKeyIdOnly(path, id) == id

\* `${filePath}#${blockId}`
BlockIdKey(path, id) == path \o <<"#">> \o id

KeyIndexes(map, key) == {k \in 1..Len(map) : map[k].key = key}

\* a map that keeps the last occurrence of a key only
MapPushLastWins(map, key, item) ==
    IF {k \in 1..Len(map) : map[k].key = key} = {}
    THEN Append(map, [key |-> key, items |-> <<item>>])
    ELSE LET k == CHOOSE k \in 1..Len(map) : map[k].key = key
         IN  [map EXCEPT ![k].items = <<item>>]

\* blockIds.has(key) || blockIds.set(key, []); blockIds.get(key).push(item)
MapPush(map, key, item) ==
    IF KeyIndexes(map, key) = {}
    THEN Append(map, [key |-> key, items |-> <<item>>])
    ELSE LET k == CHOOSE k \in KeyIndexes(map, key) : TRUE
         IN  [map EXCEPT ![k].items = Append(@, item)]

\* the definition part of the forEach body for one line
CollectBlockId(line, index, f, map) ==
    LET match == BlockIdMatch(line)
    IN  IF match # NoMatch /\ isValidBlockId(match)
        THEN MapPush(map, BlockIdKey(FilePath(f), match),
                     [id |-> match, file |-> f, line |-> Trim(line),
                      lineNumber |-> index])
        ELSE map

\* the reference part of the forEach body for one line
CollectReferences(line, f, refs) ==
    LET ms == RefMatches(line, 1)
    IN  refs \cup {BlockIdKey(ResolvedPath(ms[k].target, f), ms[k].id) :
                     k \in {k \in 1..Len(ms) :
                              ResolvedPath(ms[k].target, f) # NoPath}}

RECURSIVE CollectLines(_, _, _, _, _)
\* lines.forEach from index on; the result is <<blockIds, blockIdReferences>>
CollectLines(lines, index, f, map, refs) ==
    IF index >= Len(lines) THEN <<map, refs>>
    ELSE CollectLines(lines, index + 1, f,
                      CollectBlockId(lines[index + 1], index, f, map),
                      CollectReferences(lines[index + 1], f, refs))

collectBlockIdsAndReferences(content, f, map, refs) ==
    CollectLines(SplitLines(content), 0, f, map, refs)

(***************************************************************************)
(* findUnusedBlockIds.                                                     *)
(***************************************************************************)
RECURSIVE FilterItems(_, _)
\* blockIdArray.filter(item => !blockIdReferences.has(`${item.file}#${item.id}`))
FilterItems(items, refs) ==
    IF items = <<>> THEN <<>>
    ELSE LET rest == FilterItems(Tail(items), refs)
             item == Head(items)
         IN  IF BlockIdKey(FilePath(item.file), item.id) \in refs
             THEN rest ELSE <<item>> \o rest

RECURSIVE FlatMapUnusedReversed(_, _)
\* the entries of the map taken last to first
FlatMapUnusedReversed(map, refs) ==
    IF map = <<>> THEN <<>>
    ELSE FlatMapUnusedReversed(Tail(map), refs) \o FilterItems(Head(map).items, refs)

RECURSIVE FlatMapUnused(_, _)
\* Array.from(blockIds.entries()).flatMap(...)
FlatMapUnused(map, refs) ==
    IF map = <<>> THEN <<>>
    ELSE FilterItems(Head(map).items, refs) \o FlatMapUnused(Tail(map), refs)

NoNotice == [kind |-> "none", count |-> 0]

\* the command callback: up to the first await of cachedRead
ScanVault ==
    /\ pc = "idle"
    /\ pc' = "scanning"
    /\ idx' = 0
    /\ blockIds' = <<>>
    /\ blockIdReferences' = {}
    /\ notice' = [kind |-> "searching", count |-> 0]
    /\ UNCHANGED <<vault, resolve, unusedBlockIds, blockIdsByFile, gi,
                   totalRemoved, writes, drifts>>

\* one cachedRead completes: the file is collected; after the last file the
\* unused list is computed and the modal (or the "none found" notice) shown
ScanFile ==
    /\ pc = "scanning"
    /\ idx < Len(MarkdownFiles)
    /\ LET f == MarkdownFiles[idx + 1]
           got == collectBlockIdsAndReferences(vault[f], f, blockIds,
                                               blockIdReferences)
           unused == FlatMapUnused(got[1], got[2])
       IN  /\ blockIds' = got[1]
           /\ blockIdReferences' = got[2]
           /\ idx' = idx + 1
           /\ IF idx + 1 < Len(MarkdownFiles)
              THEN UNCHANGED <<pc, unusedBlockIds, notice>>
              ELSE /\ unusedBlockIds' = unused
                   /\ IF Len(unused) = 0
                      THEN pc' = "done" /\ notice' = [kind |-> "none found", count |-> 0]
                      ELSE pc' = "modal" /\ notice' = NoNotice
    /\ UNCHANGED <<vault, resolve, blockIdsByFile, gi, totalRemoved, writes, drifts>>

NextScan == ScanVault \/ ScanFile

(***************************************************************************)
(* deleteUnusedBlockIds.                                                   *)
(***************************************************************************)
\* new RegExp(`\\s*\\^${blockId.id}$`).test(line): the line ends with the
\* caret followed by the identifier text
BlockIdRegexTest(line, id) ==
    /\ Len(line) > Len(id)
    /\ line[Len(line) - Len(id)] = "^"
    /\ SubSeq(line, Len(line) - Len(id) + 1, Len(line)) = id

RECURSIVE SpaceRunStart(_, _)
\* the first position of the whitespace run that ends right before position c
SpaceRunStart(line, c) ==
    IF c > 1 /\ IsSpace(line[c - 1]) THEN SpaceRunStart(line, c - 1) ELSE c

\* a replace whose pattern runs from the first caret of the line
BlockIdRegexReplaceFromFirstCaret(line, id) ==
    IF BlockIdRegexTest(line, id)
    THEN LET c == CHOOSE c \in 1..Len(line) :
                    line[c] = "^" /\ \A k \in 1..(c - 1) : line[k] # "^"
         IN  SubSeq(line, 1, SpaceRunStart(line, c) - 1)
    ELSE line

\* line.replace(blockIdRegex, ''): the leftmost match starts where the
\* whitespace run before the caret starts, and runs to the end of the line
BlockIdRegexReplace(line, id) ==
    IF BlockIdRegexTest(line, id)
    THEN SubSeq(line, 1, SpaceRunStart(line, Len(line) - Len(id)) - 1)
    ELSE line

RECURSIVE GroupByFileOverwriting(_, _)
\* a grouping that assigns a fresh one-entry array at every entry
GroupByFileOverwriting(items, acc) ==
    IF items = <<>> THEN acc
    ELSE LET item == Head(items)
             at == {k \in 1..Len(acc) : acc[k].file = item.file}
         IN  GroupByFileOverwriting(Tail(items),
                 IF at = {}
                 THEN Append(acc, [file |-> item.file, items |-> <<item>>])
                 ELSE LET k == CHOOSE k \in at : TRUE
                      IN  [acc EXCEPT ![k].items = <<item>>])

RECURSIVE GroupByFile(_, _)
\* unusedBlockIds.reduce(...) into acc, then Object.entries(acc)
GroupByFile(items, acc) ==
    IF items = <<>> THEN acc
    ELSE LET item == Head(items)
             at == {k \in 1..Len(acc) : acc[k].file = item.file}
         IN  GroupByFile(Tail(items),
                 IF at = {}
                 THEN Append(acc, [file |-> item.file, items |-> <<item>>])
                 ELSE LET k == CHOOSE k \in at : TRUE
                      IN  [acc EXCEPT ![k].items = Append(@, item)])

\* a forEach body that replaces and counts without testing the line first
StripEntryUntested(st, blockId) ==
    LET lineIndex == blockId.lineNumber
    IN  IF lineIndex >= 0 /\ lineIndex < Len(st.lines)
        THEN [lines |-> [st.lines EXCEPT ![lineIndex + 1] =
                             BlockIdRegexReplace(@, blockId.id)],
              removed |-> st.removed + 1,
              fileChanged |-> TRUE]
        ELSE st

\* a forEach body that writes the strip of the line text recorded by the scan
\* in place of the strip of the line it was handed
StripEntryFromRecordedLine(st, blockId) ==
    LET lineIndex == blockId.lineNumber
    IN  IF lineIndex >= 0 /\ lineIndex < Len(st.lines)
           /\ BlockIdRegexTest(st.lines[lineIndex + 1], blockId.id)
        THEN [lines |-> [st.lines EXCEPT ![lineIndex + 1] =
                             BlockIdRegexReplace(blockId.line, blockId.id)],
              removed |-> st.removed + 1,
              fileChanged |-> TRUE]
        ELSE st

\* the body of blockIds.forEach for one entry, on the callback's variables
StripEntry(st, blockId) ==
    LET lineIndex == blockId.lineNumber
    IN  IF lineIndex >= 0 /\ lineIndex < Len(st.lines)
           /\ BlockIdRegexTest(st.lines[lineIndex + 1], blockId.id)
        THEN [lines |-> [st.lines EXCEPT ![lineIndex + 1] =
                             BlockIdRegexReplace(@, blockId.id)],
              removed |-> st.removed + 1,
              fileChanged |-> TRUE]
        ELSE st

RECURSIVE StripEntries(_, _)
StripEntries(st, items) ==
    IF items = <<>> THEN st
    ELSE StripEntries(StripEntry(st, Head(items)), Tail(items))

\* a callback that always returns the joined lines for saving
ProcessCallbackAlwaysSaving(content, items) ==
    LET st == StripEntries([lines |-> SplitLines(content), removed |-> 0,
                            fileChanged |-> FALSE], items)
    IN  [content |-> JoinLines(st.lines),
         removed |-> st.removed,
         fileChanged |-> TRUE]

\* the callback given to vault.process: the returned content, the number of
\* removals it counted and whether it asked for a save
ProcessCallback(content, items) ==
    LET st == StripEntries([lines |-> SplitLines(content), removed |-> 0,
                            fileChanged |-> FALSE], items)
    IN  [content |-> IF st.fileChanged THEN JoinLines(st.lines) ELSE content,
         removed |-> st.removed,
         fileChanged |-> st.fileChanged]

RECURSIVE NextTFile(_, _, _)
\* the for loop from group k on: groups whose path is no TFile are passed
\* over without suspending; the result is the first group that is processed
NextTFile(groups, k, v) ==
    IF k > Len(groups) THEN k
    ELSE IF v[groups[k].file] = Missing THEN NextTFile(groups, k + 1, v)
    ELSE k

\* a loop whose final Notice reports the size of the batch
LoopFromReportingBatch(groups, k, v, removed) ==
    IF NextTFile(groups, k, v) > Len(groups)
    THEN /\ gi' = Len(groups) + 1
         /\ pc' = "done"
         /\ notice' = [kind |-> "removed", count |-> Len(unusedBlockIds)]
    ELSE /\ gi' = NextTFile(groups, k, v)
         /\ pc' = "deleting"
         /\ notice' = [kind |-> "deleting", count |-> 0]

\* the state after the for loop has moved on to group k of groups
LoopFrom(groups, k, v, removed) ==
    IF NextTFile(groups, k, v) > Len(groups)
    THEN /\ gi' = Len(groups) + 1
         /\ pc' = "done"
         /\ notice' = [kind |-> "removed", count |-> removed]
    ELSE /\ gi' = NextTFile(groups, k, v)
         /\ pc' = "deleting"
         /\ notice' = [kind |-> "deleting", count |-> 0]

\* "Delete all": deleteUnusedBlockIds up to its first await
DeleteAll ==
    /\ pc = "modal"
    /\ LET groups == GroupByFile(unusedBlockIds, <<>>)
       IN  /\ blockIdsByFile' = groups
           /\ LoopFrom(groups, 1, vault, 0)
    /\ totalRemoved' = 0
    /\ UNCHANGED <<vault, resolve, idx, blockIds, blockIdReferences,
                   unusedBlockIds, writes, drifts>>

\* "Cancel"
Cancel ==
    /\ pc = "modal"
    /\ pc' = "done"
    /\ UNCHANGED <<vault, resolve, idx, blockIds, blockIdReferences,
                   unusedBlockIds, blockIdsByFile, gi, totalRemoved, notice,
                   writes, drifts>>

\* the pending vault.process resolves: the file is read, the callback runs
\* and its result is saved when the callback changed the file; the loop then
\* moves on
ProcessFile ==
    /\ pc = "deleting"
    /\ LET g == blockIdsByFile[gi]
       IN  /\ vault[g.file] # Missing
           /\ LET res == ProcessCallback(vault[g.file], g.items)
              IN  /\ vault' = IF res.fileChanged
                              THEN [vault EXCEPT ![g.file] = res.content]
                              ELSE vault
                  /\ writes' = IF res.fileChanged THEN Append(writes, g.file)
                               ELSE writes
                  /\ totalRemoved' = totalRemoved + res.removed
                  /\ LoopFrom(blockIdsByFile, gi + 1, vault,
                              totalRemoved + res.removed)
    /\ UNCHANGED <<resolve, idx, blockIds, blockIdReferences, unusedBlockIds,
                   blockIdsByFile, drifts>>

\* a catch that shows the error and lets the loop go on
CaughtAndContinued ==
    /\ pc' = "deleting"
    /\ notice' = [kind |-> "error", count |-> 0]

\* the catch block
Caught ==
    /\ pc' = "failed"
    /\ notice' = [kind |-> "error", count |-> 0]

\* the pending vault.process rejects before anything is saved: a read
\* error, or the file was removed after the loop found it
ProcessFailsOnRead ==
    /\ pc = "deleting"
    /\ Caught
    /\ UNCHANGED <<vault, resolve, idx, blockIds, blockIdReferences,
                   unusedBlockIds, blockIdsByFile, gi, totalRemoved, writes,
                   drifts>>

\* the pending vault.process rejects after the callback ran and its result
\* reached the file: an error reported by the save
ProcessFailsOnWrite ==
    /\ pc = "deleting"
    /\ LET g == blockIdsByFile[gi]
       IN  /\ vault[g.file] # Missing
           /\ LET res == ProcessCallback(vault[g.file], g.items)
              IN  /\ res.fileChanged
                  /\ vault' = [vault EXCEPT ![g.file] = res.content]
                  /\ writes' = Append(writes, g.file)
                  /\ totalRemoved' = totalRemoved + res.removed
    /\ Caught
    /\ UNCHANGED <<resolve, idx, blockIds, blockIdReferences, unusedBlockIds,
                   blockIdsByFile, gi, drifts>>

(***************************************************************************)
(* The environment: edits made to the vault by the user or another plugin  *)
(* after the scan, while the modal is open or the delete run is in flight. *)
(***************************************************************************)
\* the lines an external edit writes
DriftLines ==
    { <<"t">>,
      <<"^", "b">>,
      <<"t", "^", "a">> }

Drifting == pc \in {"modal", "deleting"} /\ drifts < MaxDrift

DriftFrame ==
    /\ drifts' = drifts + 1
    /\ UNCHANGED <<resolve, pc, idx, blockIds, blockIdReferences,
                   unusedBlockIds, blockIdsByFile, gi, totalRemoved, notice,
                   writes>>

EditLine ==
    /\ Drifting
    /\ \E f \in Files :
          /\ vault[f] # Missing
          /\ LET lines == SplitLines(vault[f])
             IN  \E i \in 1..Len(lines), l \in DriftLines :
                    /\ lines[i] # l
                    /\ vault' = [vault EXCEPT ![f] =
                                    JoinLines([lines EXCEPT ![i] = l])]
    /\ DriftFrame

InsertLine ==
    /\ Drifting
    /\ \E f \in Files :
          /\ vault[f] # Missing
          /\ vault' = [vault EXCEPT ![f] = <<"t", NL>> \o @]
    /\ DriftFrame

RemoveLine ==
    /\ Drifting
    /\ \E f \in Files :
          /\ vault[f] # Missing
          /\ LET lines == SplitLines(vault[f])
             IN  /\ Len(lines) > 1
                 /\ vault' = [vault EXCEPT ![f] = JoinLines(Tail(lines))]
    /\ DriftFrame

RemoveFile ==
    /\ Drifting
    /\ \E f \in Files :
          /\ vault[f] # Missing
          /\ vault' = [vault EXCEPT ![f] = Missing]
    /\ DriftFrame

(***************************************************************************)
(* Initial states.                                                         *)
(***************************************************************************)
\* the lines the documents of the corpus are written from
LineSet ==
    { <<"^", "a">>,
      <<"t", " ", "^", "a">>,
      <<"^", "a", " ", "^", "a">>,
      <<"^", "b">>,
      <<"[", "[", "A", "#", "^", "a", "]", "]">> }

\* documents written as n lines of LineSet; the empty document for n = 0
RECURSIVE DocsOf(_)
DocsOf(n) ==
    IF n = 0 THEN {<<>>}
    ELSE IF n = 1 THEN LineSet
    ELSE {l \o <<NL>> \o d : l \in LineSet, d \in DocsOf(n - 1)}

\* vaults whose documents are written as at most n lines in total
VaultsUpTo(n) ==
    UNION { {[f \in Files |-> IF f = "A" THEN a ELSE b] :
               a \in DocsOf(p[1]), b \in DocsOf(p[2])} :
            p \in {p \in (0..n) \X (0..n) : p[1] + p[2] <= n} }

Resolutions == [LinkPaths \X Files -> Files \cup {NoDest}]

\* every link path resolves to the file of that name, whatever the source
ByName == [p \in LinkPaths \X Files |-> p[1][1]]

InitRest ==
    /\ pc = "idle"
    /\ idx = 0
    /\ blockIds = <<>>
    /\ blockIdReferences = {}
    /\ unusedBlockIds = <<>>
    /\ blockIdsByFile = <<>>
    /\ gi = 0
    /\ totalRemoved = 0
    /\ notice = NoNotice
    /\ writes = <<>>
    /\ drifts = 0

InitScan ==
    /\ vault \in VaultsUpTo(MaxScanLines)
    /\ resolve \in Resolutions
    /\ InitRest

SpecScan == InitScan /\ [][NextScan]_vars

\* the characters free-form content is written from
ContentChars == {" ", "\t", "^", "a", "-", ".", NL}

RECURSIVE ContentsOf(_)
\* every content of exactly n characters
ContentsOf(n) ==
    IF n = 0 THEN {<<>>}
    ELSE {Append(c, ch) : c \in ContentsOf(n - 1), ch \in ContentChars}

InitLine ==
    /\ \E n \in 0..MaxContentLen :
          vault \in {[f \in Files |-> IF f = "A" THEN c ELSE <<>>] :
                       c \in ContentsOf(n)}
    /\ resolve = ByName
    /\ InitRest

SpecLine == InitLine /\ [][NextScan]_vars

Init ==
    /\ vault \in VaultsUpTo(MaxLines)
    /\ resolve = ByName
    /\ InitRest

Next ==
    \/ ScanVault
    \/ ScanFile
    \/ DeleteAll
    \/ Cancel
    \/ ProcessFile
    \/ ProcessFailsOnRead
    \/ ProcessFailsOnWrite
    \/ EditLine
    \/ InsertLine
    \/ RemoveLine
    \/ RemoveFile

Spec == Init /\ [][Next]_vars

(***************************************************************************)
(* Vocabulary of the properties.                                           *)
(***************************************************************************)
ScanDone == pc # "idle" /\ idx = Len(MarkdownFiles)

InSeq(seq, x) == \E k \in 1..Len(seq) : seq[k] = x

\* every Definition of the working collection
AllItems ==
    UNION { {blockIds[k].items[j] : j \in 1..Len(blockIds[k].items)} :
            k \in 1..Len(blockIds) }

LinesOf(f) == SplitLines(vault[f])

\* the link occurrences of the corpus
LinkOccurrencesIn(f, line) ==
    LET ms == RefMatches(line, 1)
    IN  {[source |-> f, target |-> ms[k].target, id |-> ms[k].id] :
           k \in 1..Len(ms)}

LinkOccurrences ==
    UNION { LET lines == LinesOf(f)
            IN  UNION {LinkOccurrencesIn(f, lines[i]) : i \in 1..Len(lines)} :
            f \in Files }

Resolves(o) ==
    o.target \in LinkPaths /\ resolve[<<o.target, o.source>>] # NoDest

\* the references of the corpus as (document, identifier text) pairs
ReferencePairs ==
    {<<resolve[<<o.target, o.source>>], o.id>> :
        o \in {o \in LinkOccurrences : Resolves(o)}}

FileRank(f) == CHOOSE k \in 1..Len(MarkdownFiles) : MarkdownFiles[k] = f

\* the files the scan has collected so far
Scanned == {MarkdownFiles[k] : k \in 1..idx}

\* the first line index (zero-based) of f that defines id
FirstLine(f, id) ==
    (CHOOSE i \in 1..Len(LinesOf(f)) :
        /\ BlockIdMatch(LinesOf(f)[i]) = id
        /\ \A j \in 1..(i - 1) : BlockIdMatch(LinesOf(f)[j]) # id) - 1

(***************************************************************************)
(* C1: after a scan, a Definition is in the unused list iff no reference   *)
(* of the corpus resolves to its document with its identifier text; the    *)
(* list holds nothing but Definitions.  A reference that resolves to       *)
(* another document with the same identifier text does not count.          *)
(***************************************************************************)
Thm_C1 ==
    ScanDone =>
        LET refs == ReferencePairs
            items == AllItems
        IN  /\ \A d \in items :
                  InSeq(unusedBlockIds, d) <=> <<d.file, d.id>> \notin refs
            /\ \A k \in 1..Len(unusedBlockIds) : unusedBlockIds[k] \in items

\* both documents define the identifier, the reference resolves to B: A's
\* definition is reported and B's is not
Witness_C1 ==
    /\ ScanDone
    /\ \E dA \in AllItems, dB \in AllItems :
          /\ dA.file = "A" /\ dB.file = "B" /\ dA.id = dB.id
          /\ <<"B", dA.id>> \in ReferencePairs
          /\ <<"A", dA.id>> \notin ReferencePairs
          /\ InSeq(unusedBlockIds, dA)
          /\ ~InSeq(unusedBlockIds, dB)

(***************************************************************************)
(* C5: a link occurrence whose target does not resolve adds nothing to the *)
(* reference set and raises no error: a Definition whose identifier is     *)
(* named only by unresolvable links is reported unused.                    *)
(***************************************************************************)
Thm_C5 ==
    /\ notice.kind # "error"
    /\ pc # "failed"
    /\ ScanDone =>
          LET occurrences == LinkOccurrences
          IN  /\ Cardinality(blockIdReferences) <=
                    Cardinality({o \in occurrences : Resolves(o)})
              /\ \A d \in AllItems :
                    (\A o \in occurrences : o.id = d.id => ~Resolves(o))
                        => InSeq(unusedBlockIds, d)

Witness_C5 ==
    /\ ScanDone
    /\ \E d \in AllItems :
          /\ d.file = "A"
          /\ \E o \in LinkOccurrences : o.id = d.id /\ o.target = <<"A">>
          /\ \A o \in LinkOccurrences : ~Resolves(o)
          /\ InSeq(unusedBlockIds, d)

(***************************************************************************)
(* C7, as stated: in every state of a scan pass the working collection     *)
(* holds at most one Definition per (document, identifier text).           *)
(***************************************************************************)
Orig_C7 ==
    /\ \A k \in 1..Len(blockIds) : Len(blockIds[k].items) <= 1
    /\ \A p \in 1..Len(unusedBlockIds), q \in 1..Len(unusedBlockIds) :
          (unusedBlockIds[p].file = unusedBlockIds[q].file
             /\ unusedBlockIds[p].id = unusedBlockIds[q].id) => p = q

(***************************************************************************)
(* C7, amended: in every state of a scan pass the working collection holds *)
(* one entry per (document, identifier text) key, and that entry retains   *)
(* one Definition for every line of the document that defines the          *)
(* identifier text, in increasing line order: a later duplicate is         *)
(* appended, nothing is replaced.                                          *)
(***************************************************************************)
Thm_C7 ==
    /\ \A k1 \in 1..Len(blockIds), k2 \in 1..Len(blockIds) :
          blockIds[k1].key = blockIds[k2].key => k1 = k2
    /\ \A k \in 1..Len(blockIds) :
          LET items == blockIds[k].items
          IN  /\ Len(items) >= 1
              /\ \A j \in 1..Len(items) :
                    /\ items[j].file \in Scanned
                    /\ items[j].file = items[1].file /\ items[j].id = items[1].id
                    /\ items[j].lineNumber + 1 \in 1..Len(LinesOf(items[j].file))
                    /\ BlockIdMatch(LinesOf(items[j].file)[items[j].lineNumber + 1])
                          = items[j].id
                    /\ \A j2 \in (j + 1)..Len(items) :
                          items[j].lineNumber < items[j2].lineNumber
    /\ \A f \in Scanned : \A i \in 1..Len(LinesOf(f)) :
          BlockIdMatch(LinesOf(f)[i]) # NoMatch =>
              \E d \in AllItems :
                 d.file = f /\ d.lineNumber = i - 1
                    /\ d.id = BlockIdMatch(LinesOf(f)[i])

\* a document that defines one identifier on two lines: both are retained
Witness_C7 ==
    \E k \in 1..Len(blockIds) :
       /\ Len(blockIds[k].items) >= 2
       /\ blockIds[k].items[1].lineNumber # blockIds[k].items[2].lineNumber

(***************************************************************************)
(* C8, as stated: the unused list is ordered by document, then by          *)
(* increasing line index within a document.                                *)
(***************************************************************************)
Orig_C8 ==
    ScanDone =>
        \A p \in 1..Len(unusedBlockIds), q \in 1..Len(unusedBlockIds) :
           p < q =>
              LET x == unusedBlockIds[p]
                  y == unusedBlockIds[q]
              IN  \/ FileRank(x.file) < FileRank(y.file)
                  \/ x.file = y.file /\ x.lineNumber < y.lineNumber

(***************************************************************************)
(* C8, amended: the unused list is ordered by document enumeration order;  *)
(* within one document the entries are grouped by identifier text, the     *)
(* groups in the order of each identifier's first defining line, and the   *)
(* entries of one group by increasing line index.                          *)
(***************************************************************************)
Thm_C8 ==
    ScanDone =>
        \A p \in 1..Len(unusedBlockIds), q \in 1..Len(unusedBlockIds) :
           p < q =>
              LET x == unusedBlockIds[p]
                  y == unusedBlockIds[q]
              IN  \/ FileRank(x.file) < FileRank(y.file)
                  \/ /\ x.file = y.file
                     /\ \/ x.id = y.id /\ x.lineNumber < y.lineNumber
                        \/ /\ x.id # y.id
                           /\ FirstLine(x.file, x.id) < FirstLine(y.file, y.id)

\* two entries of one document in line order, then an entry of the next
Witness_C8 ==
    /\ ScanDone
    /\ Len(unusedBlockIds) = 3
    /\ unusedBlockIds[1].file = "A" /\ unusedBlockIds[2].file = "A"
    /\ unusedBlockIds[1].id # unusedBlockIds[2].id
    /\ unusedBlockIds[1].lineNumber < unusedBlockIds[2].lineNumber
    /\ unusedBlockIds[3].file = "B"

(***************************************************************************)
(* C10, as stated: a line is recorded as a Definition iff it ends with a   *)
(* possibly empty run of whitespace, a caret and one or more token         *)
(* characters, which are the lines the Mutator's pattern accepts.          *)
(***************************************************************************)
Recorded(f, i) == \E d \in AllItems : d.file = f /\ d.lineNumber = i - 1

\* the line ends with a caret and one or more token characters
EndsWithCaretToken(line) ==
    \E n \in 1..(Len(line) - 1) :
       /\ line[Len(line) - n] = "^"
       /\ AllToken(line, Len(line) - n + 1, Len(line))

\* the Mutator's pattern accepts the line for some identifier text
MutatorAccepts(line) ==
    \E n \in 1..(Len(line) - 1) :
       /\ isValidBlockId(SubSeq(line, Len(line) - n + 1, Len(line)))
       /\ BlockIdRegexTest(line, SubSeq(line, Len(line) - n + 1, Len(line)))

Orig_C10 ==
    ScanDone =>
        \A i \in 1..Len(LinesOf("A")) :
           /\ Recorded("A", i) <=> EndsWithCaretToken(LinesOf("A")[i])
           /\ Recorded("A", i) <=> MutatorAccepts(LinesOf("A")[i])

(***************************************************************************)
(* C10, amended: a line is recorded as a Definition iff it ends with a     *)
(* caret and one or more token characters and the caret is the first       *)
(* character of the line or follows a whitespace character; a line whose   *)
(* caret follows another character (text^abc) is not recorded.  Every      *)
(* recorded line is accepted by the Mutator's pattern for the recorded     *)
(* identifier, which in addition accepts the lines whose caret follows     *)
(* another character.                                                      *)
(***************************************************************************)
CaretTokenAfterSpaceOrStart(line) ==
    \E n \in 1..(Len(line) - 1) :
       LET pre == SubSeq(line, 1, Len(line) - n - 1)
       IN  /\ line[Len(line) - n] = "^"
           /\ AllToken(line, Len(line) - n + 1, Len(line))
           /\ (pre = <<>> \/ pre[Len(pre)] \in SpaceChars)

Thm_C10 ==
    ScanDone =>
        \A i \in 1..Len(LinesOf("A")) :
           LET line == LinesOf("A")[i]
           IN  /\ Recorded("A", i) <=> CaretTokenAfterSpaceOrStart(line)
               /\ \A d \in AllItems :
                     (d.file = "A" /\ d.lineNumber = i - 1) =>
                         /\ isValidBlockId(d.id)
                         /\ line = SubSeq(line, 1, Len(line) - Len(d.id) - 1)
                                      \o <<"^">> \o d.id
                         /\ BlockIdRegexTest(line, d.id)
               /\ (EndsWithCaretToken(line) /\ ~Recorded("A", i))
                     => MutatorAccepts(line)

\* a line whose caret directly follows a character that is no whitespace:
\* not recorded, although the Mutator's pattern accepts it
Witness_C10 ==
    /\ ScanDone
    /\ \E i \in 1..Len(LinesOf("A")) :
          /\ EndsWithCaretToken(LinesOf("A")[i])
          /\ MutatorAccepts(LinesOf("A")[i])
          /\ ~Recorded("A", i)
          /\ ~IsSpace(LinesOf("A")[i][1])

(***************************************************************************)
(* Vocabulary of the properties of the delete run.                         *)
(***************************************************************************)
\* the line ends with the caret tag of id
EndsWithTag(line, id) ==
    /\ Len(line) >= Len(id) + 1
    /\ SubSeq(line, Len(line) - Len(id), Len(line)) = <<"^">> \o id

\* old is new, then a run of whitespace that new does not continue, then
\* the caret tag of id
StrippedOf(old, new, id) ==
    /\ Len(old) >= Len(new) + 1 + Len(id)
    /\ SubSeq(old, 1, Len(new)) = new
    /\ \A k \in (Len(new) + 1)..(Len(old) - Len(id) - 1) : IsSpace(old[k])
    /\ SubSeq(old, Len(old) - Len(id), Len(old)) = <<"^">> \o id
    /\ (new = <<>> \/ ~IsSpace(new[Len(new)]))

\* the batch entry e finds its caret tag at its recorded line of lines
Applicable(lines, e) ==
    /\ e.lineNumber + 1 \in 1..Len(lines)
    /\ EndsWithTag(lines[e.lineNumber + 1], e.id)

\* the entries of items that are applicable at line i (one-based) of lines
ApplicableAt(lines, items, i) ==
    {k \in 1..Len(items) : items[k].lineNumber = i - 1 /\ Applicable(lines, items[k])}

\* a step of the plugin, as opposed to an external edit
PluginStep == drifts' = drifts

(***************************************************************************)
(* C2: a step of the delete run that writes a document changes, in that    *)
(* document, only the lines at which a batch entry finds its caret tag,    *)
(* and each of them only by dropping the tag and the whitespace run before *)
(* it; the number of lines, every other line and every other document are  *)
(* the same before and after, and a plugin step that writes nothing        *)
(* changes no document.                                                    *)
(***************************************************************************)
Thm_C2 ==
    [][PluginStep =>
          IF writes' = writes THEN vault' = vault
          ELSE /\ pc = "deleting"
               /\ LET f == blockIdsByFile[gi].file
                      items == blockIdsByFile[gi].items
                      old == SplitLines(vault[f])
                      new == SplitLines(vault'[f])
                  IN  /\ \A f2 \in Files \ {f} : vault'[f2] = vault[f2]
                      /\ Len(new) = Len(old)
                      /\ \A i \in 1..Len(old) :
                            IF ApplicableAt(old, items, i) = {}
                            THEN new[i] = old[i]
                            ELSE \E k \in ApplicableAt(old, items, i) :
                                    StrippedOf(old[i], new[i], items[k].id)
      ]_vars

\* the one entry "t ^a" of a two-line document was deleted: its line is "t"
Witness_C2 ==
    /\ pc = "done" /\ drifts = 0
    /\ Len(unusedBlockIds) = 1
    /\ unusedBlockIds[1].line = <<"t", " ", "^", "a">>
    /\ writes = <<unusedBlockIds[1].file>>
    /\ LET lines == SplitLines(vault[unusedBlockIds[1].file])
       IN  /\ Len(lines) = 2
           /\ lines[unusedBlockIds[1].lineNumber + 1] = <<"t">>

(***************************************************************************)
(* C3: when the delete run processes a document, an entry whose recorded   *)
(* line no longer ends with the entry's caret tag, or whose line index is  *)
(* past the end, leaves its line as it is and is not counted; no error is  *)
(* raised and the entries that do find their tag are stripped and counted. *)
(***************************************************************************)
Thm_C3 ==
    [][(PluginStep /\ pc = "deleting" /\ gi' # gi) =>
          LET f == blockIdsByFile[gi].file
              items == blockIdsByFile[gi].items
              old == SplitLines(vault[f])
              new == SplitLines(vault'[f])
          IN  /\ notice'.kind # "error" /\ pc' \in {"deleting", "done"}
              /\ Len(new) = Len(old)
              /\ \A k \in 1..Len(items) :
                    IF Applicable(old, items[k])
                    THEN new[items[k].lineNumber + 1] # old[items[k].lineNumber + 1]
                    ELSE items[k].lineNumber + 1 \in 1..Len(old) =>
                            (ApplicableAt(old, items, items[k].lineNumber + 1) = {}
                                => new[items[k].lineNumber + 1]
                                      = old[items[k].lineNumber + 1])
              /\ totalRemoved' = totalRemoved
                    + Cardinality({k \in 1..Len(items) : Applicable(old, items[k])})
      ]_vars

\* two entries of one document, one of them drifted: the run ends without
\* error, counts one, and the drifted line has no tag to show for it
Witness_C3 ==
    /\ pc = "done" /\ drifts > 0
    /\ notice = [kind |-> "removed", count |-> 1]
    /\ Len(unusedBlockIds) = 2
    /\ unusedBlockIds[1].file = unusedBlockIds[2].file
    /\ writes = <<unusedBlockIds[1].file>>

(***************************************************************************)
(* C4: a plugin step writes a document only in a delete run, only the      *)
(* document of the group being processed, and only when at least one entry *)
(* of the group finds its caret tag at its recorded line; a document with  *)
(* no such entry is not written and keeps its content.                     *)
(***************************************************************************)
Thm_C4 ==
    [][PluginStep =>
          /\ writes' # writes =>
                /\ pc = "deleting"
                /\ writes' = Append(writes, blockIdsByFile[gi].file)
                /\ \E k \in 1..Len(blockIdsByFile[gi].items) :
                      Applicable(SplitLines(vault[blockIdsByFile[gi].file]),
                                 blockIdsByFile[gi].items[k])
                /\ vault'[blockIdsByFile[gi].file] # vault[blockIdsByFile[gi].file]
          /\ writes' = writes => vault' = vault
      ]_vars

\* the first document of the batch drifted and was passed without a write;
\* the second was written
Witness_C4 ==
    /\ pc = "done" /\ drifts > 0
    /\ Len(blockIdsByFile) = 2
    /\ vault[blockIdsByFile[1].file] # Missing
    /\ writes = <<blockIdsByFile[2].file>>
    /\ notice = [kind |-> "removed", count |-> 1]

(***************************************************************************)
(* C6, as stated: after a scan and the deletion of its whole result with   *)
(* no drift, no line of the document defines an identifier that was        *)
(* defined on several lines and referenced by nobody.                      *)
(***************************************************************************)
DeletedAllNoDrift == pc = "done" /\ notice.kind = "removed" /\ drifts = 0

Unreferenced(entry) ==
    /\ Len(entry.items) >= 2
    /\ entry.key \notin blockIdReferences

CaretCount(line) == Cardinality({k \in 1..Len(line) : line[k] = "^"})

Thm_C9 ==
    [][/\ notice'.kind = "error" => pc' = "failed"
       /\ (notice.kind # "error" /\ notice'.kind = "error") =>
             /\ pc = "deleting"
             /\ \A f \in Files \ {blockIdsByFile[gi].file} : vault'[f] = vault[f]
             /\ \A k \in 1..Len(writes) : writes'[k] = writes[k]
             /\ \A k \in 1..Len(writes') :
                   \E j \in 1..gi : blockIdsByFile[j].file = writes'[k]
       /\ notice.kind = "error" =>
             /\ writes' = writes
             /\ notice' = notice
             /\ gi' = gi
             /\ (PluginStep => vault' = vault)
      ]_vars

\* the run failed at its second group: the first document stays stripped,
\* the second still carries its tag
Witness_C9 ==
    /\ pc = "failed" /\ notice.kind = "error"
    /\ Len(blockIdsByFile) = 2 /\ gi = 2
    /\ writes = <<blockIdsByFile[1].file>>
    /\ drifts = 0
    /\ \A i \in 1..Len(LinesOf(blockIdsByFile[1].file)) :
          BlockIdMatch(LinesOf(blockIdsByFile[1].file)[i]) = NoMatch
    /\ \E i \in 1..Len(LinesOf(blockIdsByFile[2].file)) :
          BlockIdMatch(LinesOf(blockIdsByFile[2].file)[i]) # NoMatch

(***************************************************************************)
(* C11: the step of the delete run that writes a document is the step that *)
(* reads it, so the written content is derived from the content the        *)
(* document has at the moment of the write, external edits included: the   *)
(* written document has the lines of that content, each either as it is or *)
(* cut before the whitespace run and caret tag of a batch identifier of    *)
(* the group being processed, and no other document is touched.            *)
(***************************************************************************)
Thm_C11 ==
    [][(PluginStep /\ writes' # writes) =>
          /\ pc = "deleting"
          /\ writes' = Append(writes, blockIdsByFile[gi].file)
          /\ LET g == blockIdsByFile[gi]
                 current == SplitLines(vault[g.file])
                 written == SplitLines(vault'[g.file])
             IN  /\ Len(written) = Len(current)
                 /\ \A i \in 1..Len(current) :
                       \/ written[i] = current[i]
                       \/ \E k \in 1..Len(g.items) :
                             StrippedOf(current[i], written[i], g.items[k].id)
                 /\ \A f \in Files \ {g.file} : vault'[f] = vault[f]
      ]_vars

\* a line was inserted at the top of the document after the scan; the run
\* wrote the document with the inserted line in place and with the tag
\* stripped from the line that had moved to the recorded index
Witness_C11 ==
    /\ pc = "done" /\ notice = [kind |-> "removed", count |-> 1]
    /\ drifts = 1
    /\ writes = <<"A">>
    /\ Len(unusedBlockIds) = 2
    /\ Len(LinesOf("A")) = MaxLines + 1
    /\ LinesOf("A")[1] = <<"t">>
    /\ LinesOf("A")[2] = <<>>
    /\ BlockIdMatch(LinesOf("A")[3]) = <<"a">>

\* the entries of group g whose recorded line the step wrote differently
StrippedEntries(g) ==
    {k \in 1..Len(g.items) :
        /\ g.items[k].lineNumber + 1 \in 1..Len(SplitLines(vault[g.file]))
        /\ SplitLines(vault'[g.file])[g.items[k].lineNumber + 1]
              # SplitLines(vault[g.file])[g.items[k].lineNumber + 1]}

(***************************************************************************)
(* C12: the count reported by a delete run that completes is the number of *)
(* batch entries whose recorded line the run stripped.  The counter starts *)
(* at zero; a step of the run adds to it the number of entries of the      *)
(* group it processes whose recorded line differs in the written document, *)
(* so an entry whose line drifted or whose index is out of range adds      *)
(* nothing; the groups the loop passes over are those of missing documents *)
(* and add nothing; an external edit adds nothing; the final Notice        *)
(* reports the counter, which is the length of the scan result when        *)
(* nothing drifted.                                                        *)
(***************************************************************************)
Thm_C12 ==
    [][/\ ~PluginStep => totalRemoved' = totalRemoved
       /\ (PluginStep /\ pc = "modal" /\ pc' # "modal" /\ notice' # notice) =>
             /\ totalRemoved' = 0
             /\ \A j \in 1..(gi' - 1) : vault[blockIdsByFile'[j].file] = Missing
       /\ (PluginStep /\ pc = "deleting") =>
             /\ totalRemoved' =
                   totalRemoved + Cardinality(StrippedEntries(blockIdsByFile[gi]))
             /\ \A j \in (gi + 1)..(gi' - 1) :
                   vault[blockIdsByFile[j].file] = Missing
             /\ pc' # "failed" =>
                   /\ gi' > gi
                   /\ pc' = "deleting" => gi' <= Len(blockIdsByFile)
                   /\ pc' = "done" => gi' = Len(blockIdsByFile) + 1
       /\ (pc # "done" /\ pc' = "done" /\ notice'.kind = "removed") =>
             /\ notice'.count = totalRemoved'
             /\ drifts' = 0 => notice'.count = Len(unusedBlockIds')
      ]_vars

\* a batch of two documents of which one was removed after the scan: its
\* group was passed over, the other document was stripped and counted
Witness_C12 ==
    /\ pc = "done" /\ notice = [kind |-> "removed", count |-> 1]
    /\ Len(unusedBlockIds) = 2
    /\ Len(blockIdsByFile) = 2
    /\ \E j \in 1..2 :
          /\ vault[blockIdsByFile[j].file] = Missing
          /\ writes = <<blockIdsByFile[3 - j].file>>
          /\ \A i \in 1..Len(LinesOf(blockIdsByFile[3 - j].file)) :
                BlockIdMatch(LinesOf(blockIdsByFile[3 - j].file)[i]) = NoMatch

====
